---- MODULE Spec2Model ----
(***************************************************************************)
(* The Worker node of the multi-agent graph                                *)
(* (packages/components/nodes/langgraph/Worker/Worker.ts):                 *)
(*   Worker_MultiAgents.init  builds one AgentExecutor and a workerNode,   *)
(*   createAgent              compiles prompt, model binding and executor, *)
(*   agentNode                runs the executor on a TeamState and wraps   *)
(*                            its output as one HumanMessage.              *)
(* The AgentExecutor class (src/agents of the components package) is not   *)
(* part of the file; its loop is modelled from the specification, §4.1.    *)
(*                                                                         *)
(* JavaScript strings whose characters matter (maxIterations, the prompt   *)
(* texts) are sequences: of characters for maxIterations, of text          *)
(* fragments for the prompt, so that '+' is \o and '' is << >>.            *)
(***************************************************************************)
EXTENDS Integers, Sequences, FiniteSets, TLC

\* ------------------------------------------------------------- bounds
MaxLen == 2           \* longest maxIterations input string
MaxTools == 2         \* longest tools input list
NumInvocations == 2   \* invocations of the worker node in flight at once
MaxRounds == 3        \* model calls one invocation makes in the model
MaxHistory == 1       \* messages in a TeamState handed to the worker

\* -------------------------------------------------------------- state
VARIABLES
    nodeData,     \* nodeData.inputs handed to init
    built,        \* "new" before init ran, then "ok" or "failed"
    initError,    \* the error init threw, "" if none
    worker,       \* returnOutput of init (its node closes over agent), or NoWorker
    agent,        \* the AgentExecutor createAgent built, or NoExecutor
    pc,           \* per invocation of worker.node: idle, loop, tool, returned, failed
    state,        \* the TeamState object an invocation was called with
    stateBefore,  \* its value when the call was made
    steps,        \* the executor's scratchpad of the invocation
    rounds,       \* model calls the invocation has made
    pending,      \* the tool call the model asked for, not yet dispatched
    lastPrompt,   \* the messages of the invocation's latest model call
    lastOutput,   \* the text of the latest model response
    result,       \* what agent.invoke settled with
    outcome       \* what worker.node settled with

vars == <<nodeData, built, initError, worker, agent, pc, state, stateBefore, steps, rounds,
          pending, lastPrompt, lastOutput, result, outcome>>
ctor == <<nodeData, built, initError, worker, agent>>

Invocations == 1..NumInvocations

\* ------------------------------------------------- JavaScript values
Undefined == [kind |-> "undefined"]
NaN == [kind |-> "NaN"]
Num(n) == [kind |-> "number", value |-> n]
\* a string is the sequence of its characters or text fragments: '' is << >>
Str(s) == [kind |-> "string", value |-> s]

\* ToBoolean of undefined | string | number
Truthy(v) ==
    CASE v.kind = "undefined" -> FALSE
      [] v.kind = "NaN" -> FALSE
      [] v.kind = "number" -> v.value # 0
      [] v.kind = "string" -> v.value # << >>

Digits == {"0", "1", "2"}
Chars == Digits \cup {"a", " "}
DigitVal(c) == CASE c = "0" -> 0 [] c = "1" -> 1 [] c = "2" -> 2

RECURSIVE SkipWhite(_)
SkipWhite(s) == IF s # << >> /\ Head(s) = " " THEN SkipWhite(Tail(s)) ELSE s

RECURSIVE DigitPrefix(_)
DigitPrefix(s) ==
    IF s # << >> /\ Head(s) \in Digits THEN <<Head(s)>> \o DigitPrefix(Tail(s)) ELSE << >>

RECURSIVE Decimal(_)
Decimal(d) == IF d = << >> THEN 0 ELSE 10 * Decimal(SubSeq(d, 1, Len(d) - 1)) + DigitVal(d[Len(d)])

\* parseFloat(string): leading white space is skipped, the longest prefix that
\* is a decimal literal is converted, anything after it is ignored; no such
\* prefix gives NaN.
parseFloat(s) ==
    LET d == DigitPrefix(SkipWhite(s))
    IN  IF d = << >> THEN NaN ELSE Num(Decimal(d))

\* String(n) of a non-negative number, as one text fragment per digit
RECURSIVE NumToStr(_)
NumToStr(n) ==
    LET digit == CASE n % 10 = 0 -> "0" [] n % 10 = 1 -> "1" [] n % 10 = 2 -> "2"
                   [] n % 10 = 3 -> "3" [] n % 10 = 4 -> "4" [] n % 10 = 5 -> "5"
                   [] n % 10 = 6 -> "6" [] n % 10 = 7 -> "7" [] n % 10 = 8 -> "8"
                   [] OTHER -> "9"
    IN  IF n < 10 THEN <<digit>> ELSE NumToStr(n \div 10) \o <<digit>>

\* ------------------------------------------------------------- inputs
ToolNames == {"search", "calculator"}
Tool(n) == [name |-> n]

RECURSIVE SeqsUpTo(_, _)
SeqsUpTo(S, n) ==
    IF n = 0 THEN {<< >>}
    ELSE LET shorter == SeqsUpTo(S, n - 1)
         IN  shorter \cup {Append(s, x) : s \in {t \in shorter : Len(t) = n - 1}, x \in S}

\* an entry of inputs.tools is a tool or a list of tools (flatten joins them)
ToolEntries ==
    {[list |-> FALSE, tool |-> Tool(n)] : n \in ToolNames}
        \cup {[list |-> TRUE, tools |-> <<Tool("search"), Tool("calculator")>>]}

examplePrompt == <<"You are a research assistant who can search for up-to-date info using search engine.">>

Supervisors == {[llm |-> "llm", name |-> Undefined], [llm |-> "llm", name |-> Str(<<"boss">>)]}

NodeInputs ==
    [workerName : {Undefined, Str(<< >>), Str(<<"researcher">>)},
     workerPrompt : {examplePrompt},
     supervisor : {[defined |-> FALSE]} \cup {[defined |-> TRUE, value |-> s] : s \in Supervisors},
     tools : {[defined |-> FALSE]} \cup {[defined |-> TRUE, value |-> t] : t \in SeqsUpTo(ToolEntries, MaxTools)},
     maxIterations : {Undefined} \cup {Str(s) : s \in SeqsUpTo(Chars, MaxLen)}]

\* ------------------------------------------------------- createAgent
\* lodash flatten: one level; undefined gives []
RECURSIVE flattenEntries(_)
flattenEntries(entries) ==
    IF entries = << >> THEN << >>
    ELSE (IF Head(entries).list THEN Head(entries).tools ELSE <<Head(entries).tool>>)
             \o flattenEntries(Tail(entries))

flatten(tools) == IF tools.defined THEN flattenEntries(tools.value) ELSE << >>

\* tools.map((t) => t.name).join(', ')
RECURSIVE joinNames(_)
joinNames(tools) ==
    IF tools = << >> THEN << >>
    ELSE IF Len(tools) = 1 THEN <<tools[1].name>>
    ELSE <<tools[1].name, ", ">> \o joinNames(Tail(tools))

TeamBoilerplate ==
    <<"\nWork autonomously according to your specialty, using the tools available to you.",
      " Do not ask for clarification.",
      " Your other team members (and other teams) will collaborate with you with their own specialties.",
      " You are chosen for a reason! You are one of the following team members: ",
      "{team_members}", ".">>
SupervisorInstructions == <<"Supervisor instructions: ", "{instructions}", "\n">>
RememberTools == "Remember, you individually can only use these tools: "
EndBoilerplate == "\n\nEnd if you have already completed the requested task. Communicate the work completed."

combinedPrompt(systemPrompt) == systemPrompt \o TeamBoilerplate

toolNames(tools) == IF Len(tools) # 0 THEN joinNames(tools) ELSE << >>

\* The text of the last system message. In  a + n ? b : c + d  the operator +
\* binds tighter than ?: , so the condition is the string a + n and the else
\* branch is c + d.
trailingSegment(tools) ==
    IF Truthy(Str(SupervisorInstructions \o NumToStr(Len(tools))))
    THEN <<RememberTools>> \o toolNames(tools)
    ELSE << >> \o <<EndBoilerplate>>

promptTemplate(tools, systemPrompt) ==
    <<[part |-> "system", text |-> combinedPrompt(systemPrompt)],
      [part |-> "placeholder", text |-> <<"messages">>],
      [part |-> "placeholder", text |-> <<"agent_scratchpad">>],
      [part |-> "system", text |-> trailingSegment(tools)]>>

\* llm.bind({tools: ...}): one schema per tool, in order, or tools: undefined
modelWithTools(llm, tools) ==
    [llm |-> llm,
     tools |-> IF Len(tools) # 0
               THEN [defined |-> TRUE, value |-> [n \in 1..Len(tools) |-> [type |-> "function", name |-> tools[n].name]]]
               ELSE [defined |-> FALSE]]

\* the option left out of the executor's fields
maxIterationsOption_dropped(maxIterations) == Undefined

\* maxIterations: maxIterations ? parseFloat(maxIterations) : undefined
maxIterationsOption(maxIterations) ==
    IF Truthy(maxIterations) THEN parseFloat(maxIterations.value) ELSE Undefined

createAgent(llm, tools, systemPrompt, maxIterations) ==
    [prompt |-> promptTemplate(tools, systemPrompt),
     model |-> modelWithTools(llm, tools),
     tools |-> tools,
     maxIterations |-> maxIterationsOption(maxIterations)]

\* -------------------------------------------------------------- init
NoWorker == [type |-> "none"]
NoExecutor == [type |-> "none"]

\* init without the workerName check
init_unchecked(inputs) ==
    IF ~inputs.supervisor.defined
    THEN [threw |-> TRUE, error |-> "TypeError", agent |-> NoExecutor, returnOutput |-> NoWorker]
    ELSE [threw |-> FALSE, error |-> "",
          agent |-> createAgent(inputs.supervisor.value.llm, flatten(inputs.tools),
                                inputs.workerPrompt, inputs.maxIterations),
          returnOutput |-> [type |-> "worker",
                            name |-> IF inputs.workerName.kind = "string"
                                     THEN inputs.workerName.value ELSE <<"undefined">>,
                            parentSupervisorName |-> <<"supervisor">>]]

\* what init(nodeData) does: throws, or returns returnOutput closing over agent
init(inputs) ==
    IF ~Truthy(inputs.workerName)
    THEN [threw |-> TRUE, error |-> "Worker name is required!", agent |-> NoExecutor, returnOutput |-> NoWorker]
    ELSE IF ~inputs.supervisor.defined
    THEN [threw |-> TRUE, error |-> "TypeError", agent |-> NoExecutor, returnOutput |-> NoWorker]
    ELSE [threw |-> FALSE, error |-> "",
          agent |-> createAgent(inputs.supervisor.value.llm, flatten(inputs.tools),
                                inputs.workerPrompt, inputs.maxIterations),
          returnOutput |-> [type |-> "worker",
                            name |-> inputs.workerName.value,
                            parentSupervisorName |->
                                IF inputs.supervisor.value.name.kind = "undefined"
                                THEN <<"supervisor">>
                                ELSE inputs.supervisor.value.name.value]]

\* --------------------------------------------------------- TeamState
HumanMessage(content, name) == [type |-> "human", content |-> content, name |-> name]

HistoryMessages == {HumanMessage(<<"Please summarize: ...">>, Undefined)}

TeamStates ==
    [messages : SeqsUpTo(HistoryMessages, MaxHistory),
     instructions : {<<"Use at most one source.">>},
     team_members : {<<"researcher, writer">>}]

NoState == [messages |-> << >>, instructions |-> << >>, team_members |-> << >>]

\* ------------------------------------------ the agent (a RunnableSequence)
\* formatToOpenAIToolMessages(steps): each step is replayed as the model's
\* tool call followed by the tool's result
RECURSIVE formatToOpenAIToolMessages(_)
formatToOpenAIToolMessages(stepSeq) ==
    IF stepSeq = << >> THEN << >>
    ELSE <<[type |-> "ai", content |-> Head(stepSeq).action.log,
            tool |-> Head(stepSeq).action.tool, tool_call_id |-> Head(stepSeq).action.toolCallId],
           [type |-> "tool", content |-> Head(stepSeq).observation,
            tool_call_id |-> Head(stepSeq).action.toolCallId]>>
         \o formatToOpenAIToolMessages(Tail(stepSeq))

RECURSIVE allSteps(_)
allSteps(n) == IF n = 0 THEN << >> ELSE allSteps(n - 1) \o steps[n]

\* the scratchpad rendered from one list of steps kept for every call
agent_scratchpad_shared(input) == formatToOpenAIToolMessages(allSteps(NumInvocations))

\* the scratchpad not rendered from the steps
agent_scratchpad_empty(input) == << >>

\* RunnablePassthrough.assign({agent_scratchpad: (input) => formatToOpenAIToolMessages(input.steps)})
agent_scratchpad(input) == formatToOpenAIToolMessages(input.steps)

\* a template text with its variables replaced by the input's values
RECURSIVE formatText(_, _)
formatText(text, input) ==
    IF text = << >> THEN << >>
    ELSE (CASE Head(text) = "{team_members}" -> input.team_members
            [] Head(text) = "{instructions}" -> input.instructions
            [] OTHER -> <<Head(text)>>)
         \o formatText(Tail(text), input)

\* ChatPromptTemplate.formatMessages: system texts formatted, placeholders
\* replaced by the message lists of the input
RECURSIVE formatMessages(_, _)
formatMessages(prompt, input) ==
    IF prompt = << >> THEN << >>
    ELSE (CASE Head(prompt).part = "system" ->
                  <<[type |-> "system", content |-> formatText(Head(prompt).text, input)]>>
            [] Head(prompt).text = <<"messages">> -> input.messages
            [] OTHER -> input.agent_scratchpad)
         \o formatMessages(Tail(prompt), input)

\* the messages the bound model is called with: the first two stages of agent
agentPrompt(executor, teamState, stepSeq) ==
    LET input == [messages |-> teamState.messages, instructions |-> teamState.instructions,
                  team_members |-> teamState.team_members, steps |-> stepSeq]
    IN  formatMessages(executor.prompt,
                       [messages |-> input.messages, instructions |-> input.instructions,
                        team_members |-> input.team_members,
                        agent_scratchpad |-> agent_scratchpad(input)])

\* --------------------------------------------------------- agentNode
NoDelta == [messages |-> << >>]

\* agentNode pushing its message onto state.messages and returning that list
agentNode_pushes(teamState, res, name) ==
    IF res.threw
    THEN [threw |-> TRUE, error |-> res.error, value |-> NoDelta, state |-> teamState]
    ELSE LET all == Append(teamState.messages, HumanMessage(res.output, Str(name)))
         IN  [threw |-> FALSE, error |-> "", value |-> [messages |-> all],
              state |-> [teamState EXCEPT !.messages = all]]

\* agentNode catching the executor's error and reporting it as a message
agentNode_catches(teamState, res, name) ==
    [threw |-> FALSE, error |-> "",
     value |-> [messages |-> <<HumanMessage(IF res.threw THEN <<res.error>> ELSE res.output, Str(name))>>],
     state |-> teamState]

\* agentNode once agent.invoke(state, config) has settled with result: a
\* rejection passes through the await, a value is wrapped in one HumanMessage
agentNode(teamState, res, name) ==
    IF res.threw
    THEN [threw |-> TRUE, error |-> res.error, value |-> NoDelta, state |-> teamState]
    ELSE [threw |-> FALSE, error |-> "",
          value |-> [messages |-> <<HumanMessage(res.output, Str(name))>>],
          state |-> teamState]

\* ------------------------------------- AgentExecutor.invoke (spec 4.1)
NoResult == [threw |-> FALSE, output |-> << >>, forcedStop |-> FALSE, settled |-> FALSE]
NoOutcome == [threw |-> FALSE, error |-> "", value |-> NoDelta, settled |-> FALSE]
NoAction == [tool |-> "", toolCallId |-> <<0, 0>>, log |-> << >>]

ModelTexts == {<<"Here is what I found.">>, <<"Let me look that up.">>}
ToolCallTexts == {<<"Let me look that up.">>}
ToolOutput(t) == <<"result of ", t>>
ToolErrorText(t) == <<"Error: ", t, " failed">>
ModelError == "ModelInvocationError"

\* step 5: the scratchpad length has reached maxIterations, when finite
CapReached(executor, stepSeq) ==
    executor.maxIterations.kind = "number" /\ Len(stepSeq) >= executor.maxIterations.value

\* step 2: what one model call can come back with
ModelResponses(executor) ==
    {[kind |-> "final", text |-> t, tool |-> ""] : t \in ModelTexts}
        \cup {[kind |-> "error", text |-> << >>, tool |-> ""]}
        \cup {[kind |-> "tool", text |-> t, tool |-> executor.tools[n].name] :
                  t \in ToolCallTexts, n \in DOMAIN executor.tools}

\* worker.node settles: agentNode on the executor's result
Settle(i, res) ==
    LET out == agentNode(state[i], res, worker.name)
    IN  /\ result' = [result EXCEPT ![i] = res @@ [settled |-> TRUE]]
        /\ outcome' = [outcome EXCEPT ![i] =
                           [threw |-> out.threw, error |-> out.error, value |-> out.value,
                            settled |-> TRUE]]
        /\ state' = [state EXCEPT ![i] = out.state]
        /\ pc' = [pc EXCEPT ![i] = IF out.threw THEN "failed" ELSE "returned"]
        \* the scratchpad is local to the call
        /\ steps' = [steps EXCEPT ![i] = << >>]
        /\ pending' = [pending EXCEPT ![i] = NoAction]

\* ------------------------------------------------------------ actions
\* the graph builder calls init(nodeData)
RunInit ==
    /\ built = "new"
    /\ LET r == init(nodeData)
       IN  /\ built' = IF r.threw THEN "failed" ELSE "ok"
           /\ initError' = r.error
           /\ worker' = r.returnOutput
           /\ agent' = r.agent
    /\ UNCHANGED <<nodeData, pc, state, stateBefore, steps, rounds, pending, lastPrompt,
                   lastOutput, result, outcome>>

\* the supervisor calls worker.node(state, config)
Start(i) ==
    /\ worker # NoWorker
    /\ pc[i] = "idle"
    /\ \E s \in TeamStates :
          /\ state' = [state EXCEPT ![i] = s]
          /\ stateBefore' = [stateBefore EXCEPT ![i] = s]
    /\ pc' = [pc EXCEPT ![i] = "loop"]
    /\ steps' = [steps EXCEPT ![i] = << >>]
    /\ rounds' = [rounds EXCEPT ![i] = 0]
    /\ lastPrompt' = [lastPrompt EXCEPT ![i] = << >>]
    /\ lastOutput' = [lastOutput EXCEPT ![i] = << >>]
    /\ UNCHANGED <<ctor, pending, result, outcome>>

\* steps 1, 2 and 4: render the prompt, call the model, parse the response
ModelCall(i) ==
    /\ pc[i] = "loop"
    /\ ~CapReached(agent, steps[i])
    /\ rounds[i] < MaxRounds
    /\ rounds' = [rounds EXCEPT ![i] = @ + 1]
    /\ lastPrompt' = [lastPrompt EXCEPT ![i] = agentPrompt(agent, state[i], steps[i])]
    /\ \E r \in ModelResponses(agent) :
          \/ /\ r.kind = "tool"
             /\ pending' = [pending EXCEPT ![i] =
                                [tool |-> r.tool, toolCallId |-> <<i, rounds[i] + 1>>, log |-> r.text]]
             /\ lastOutput' = [lastOutput EXCEPT ![i] = r.text]
             /\ pc' = [pc EXCEPT ![i] = "tool"]
             /\ UNCHANGED <<state, steps, result, outcome>>
          \/ /\ r.kind = "final"
             /\ lastOutput' = [lastOutput EXCEPT ![i] = r.text]
             /\ Settle(i, [threw |-> FALSE, output |-> r.text, forcedStop |-> FALSE])
          \/ /\ r.kind = "error"
             /\ UNCHANGED lastOutput
             /\ Settle(i, [threw |-> TRUE, error |-> ModelError])
    /\ UNCHANGED <<ctor, stateBefore>>

\* step 3: dispatch the tool, append {action, observation}, loop
ToolCall(i) ==
    /\ pc[i] = "tool"
    /\ \E ok \in BOOLEAN :
          steps' = [steps EXCEPT ![i] =
                       Append(@, [action |-> pending[i],
                                  observation |-> IF ok THEN ToolOutput(pending[i].tool)
                                                  ELSE ToolErrorText(pending[i].tool)])]
    /\ pending' = [pending EXCEPT ![i] = NoAction]
    /\ pc' = [pc EXCEPT ![i] = "loop"]
    /\ UNCHANGED <<ctor, state, stateBefore, rounds, lastPrompt, lastOutput, result, outcome>>

\* step 5: forced stop with the last model output, flagged
ForcedStop(i) ==
    /\ pc[i] = "loop"
    /\ CapReached(agent, steps[i])
    /\ Settle(i, [threw |-> FALSE, output |-> lastOutput[i], forcedStop |-> TRUE])
    /\ UNCHANGED <<ctor, stateBefore, rounds, lastPrompt, lastOutput>>

\* the supervisor takes the settled call; the slot serves a later call
Collect(i) ==
    /\ pc[i] \in {"returned", "failed"}
    /\ pc' = [pc EXCEPT ![i] = "idle"]
    /\ state' = [state EXCEPT ![i] = NoState]
    /\ stateBefore' = [stateBefore EXCEPT ![i] = NoState]
    /\ rounds' = [rounds EXCEPT ![i] = 0]
    /\ lastPrompt' = [lastPrompt EXCEPT ![i] = << >>]
    /\ lastOutput' = [lastOutput EXCEPT ![i] = << >>]
    /\ result' = [result EXCEPT ![i] = NoResult]
    /\ outcome' = [outcome EXCEPT ![i] = NoOutcome]
    /\ UNCHANGED <<ctor, steps, pending>>

\* ----------------------------------------------------- specifications
InitRest ==
    /\ built = "new"
    /\ initError = ""
    /\ worker = NoWorker
    /\ agent = NoExecutor
    /\ pc = [i \in Invocations |-> "idle"]
    /\ state = [i \in Invocations |-> NoState]
    /\ stateBefore = [i \in Invocations |-> NoState]
    /\ steps = [i \in Invocations |-> << >>]
    /\ rounds = [i \in Invocations |-> 0]
    /\ pending = [i \in Invocations |-> NoAction]
    /\ lastPrompt = [i \in Invocations |-> << >>]
    /\ lastOutput = [i \in Invocations |-> << >>]
    /\ result = [i \in Invocations |-> NoResult]
    /\ outcome = [i \in Invocations |-> NoOutcome]

\* Any interleaving of the invocations of one worker whose executor has a
\* cap: the cap, not MaxRounds, ends every loop.
ConcurrentInputs ==
    {n \in NodeInputs :
        /\ n.workerName = Str(<<"researcher">>)
        /\ n.supervisor.defined /\ n.supervisor.value.name.kind = "string"
        /\ n.tools.defined /\ n.tools.value = <<[list |-> FALSE, tool |-> Tool("search")]>>
        /\ n.maxIterations \in {Str(<<"1">>), Str(<<"2">>)}}

Init == nodeData \in ConcurrentInputs /\ InitRest

Next ==
    \/ RunInit
    \/ \E i \in Invocations : Start(i)
    \/ \E i \in Invocations : ModelCall(i)
    \/ \E i \in Invocations : ToolCall(i)
    \/ \E i \in Invocations : ForcedStop(i)
    \/ \E i \in Invocations : Collect(i)

Spec == Init /\ [][Next]_vars

\* One call of the worker node at a time, over every maxIterations input and
\* worker name, with no tool, one tool or two.
SequentialInputs ==
    {n \in NodeInputs :
        /\ n.supervisor.defined => n.supervisor.value.name.kind = "string"
        /\ n.tools.defined =>
              n.tools.value \in {<<[list |-> FALSE, tool |-> Tool("search")]>>,
                                 <<[list |-> TRUE, tools |-> <<Tool("search"), Tool("calculator")>>]>>}}

InitSequential == nodeData \in SequentialInputs /\ InitRest

NextSequential ==
    \/ RunInit
    \/ \E i \in Invocations : (\A j \in Invocations : pc[j] = "idle") /\ Start(i)
    \/ \E i \in Invocations : ModelCall(i)
    \/ \E i \in Invocations : ToolCall(i)
    \/ \E i \in Invocations : ForcedStop(i)
    \/ \E i \in Invocations : Collect(i)

SpecSequential == InitSequential /\ [][NextSequential]_vars

\* Construction alone, over every node input.
InitCreate == nodeData \in NodeInputs /\ InitRest

NextCreate == RunInit

SpecCreate == InitCreate /\ [][NextCreate]_vars

\* ------------------------------------------------------------- claims
Range(f) == {f[x] : x \in DOMAIN f}
Trailing == agent.prompt[Len(agent.prompt)].text
ScratchpadMessages(i) ==
    {m \in DOMAIN lastPrompt[i] : lastPrompt[i][m].type \in {"ai", "tool"}}

\* C1: a worker node call that returns hands back a delta of exactly one
\* message, whose content is the executor's output and whose name is the
\* workerName given to init, and leaves the TeamState it was called with as
\* it was.
C1_OneAttributedMessage ==
    \A i \in Invocations :
        pc[i] = "returned" =>
            /\ result[i].settled /\ ~result[i].threw
            /\ outcome[i].settled /\ ~outcome[i].threw
            /\ Len(outcome[i].value.messages) = 1
            /\ outcome[i].value.messages[1].content = result[i].output
            /\ outcome[i].value.messages[1].name = nodeData.workerName
            /\ state[i] = stateBefore[i]

C1_Witness ==
    \E i \in Invocations :
        /\ pc[i] = "returned"
        /\ ~result[i].forcedStop
        /\ stateBefore[i].messages # << >>
        /\ rounds[i] > 1

\* C2: with an empty tool list the trailing system segment has no tool
\* restatement, is not empty, and is the "End if you have already completed
\* the requested task" boilerplate.
C2_EmptyToolsetTrailing ==
    (built = "ok" /\ agent.tools = << >>) =>
        /\ RememberTools \notin Range(Trailing)
        /\ Trailing # << >>
        /\ EndBoilerplate \in Range(Trailing)

\* C3: the prompt is system segment, messages placeholder, scratchpad
\* placeholder, trailing system segment, in this order; the trailing segment
\* always carries {instructions}, and for a non-empty toolset restates the
\* tool names in toolset order.
C3_PromptParts ==
    built = "ok" =>
        /\ Len(agent.prompt) = 4
        /\ agent.prompt[1] = [part |-> "system", text |-> nodeData.workerPrompt \o TeamBoilerplate]
        /\ agent.prompt[2] = [part |-> "placeholder", text |-> <<"messages">>]
        /\ agent.prompt[3] = [part |-> "placeholder", text |-> <<"agent_scratchpad">>]
        /\ agent.prompt[4].part = "system"
        /\ "{instructions}" \in Range(Trailing)
        /\ agent.tools # << >> =>
              \E n \in DOMAIN Trailing :
                  /\ Trailing[n] = RememberTools
                  /\ SubSeq(Trailing, n + 1, n + Len(joinNames(agent.tools))) = joinNames(agent.tools)

\* C4: with a maxIterations input that parses to the number k, an invocation
\* never makes more than k model calls, stops once k tool rounds are done,
\* and one that was stopped by the cap made exactly k.
C4_ExactlyKRounds ==
    (built = "ok" /\ Truthy(nodeData.maxIterations)
        /\ parseFloat(nodeData.maxIterations.value).kind = "number") =>
        LET k == parseFloat(nodeData.maxIterations.value).value
        IN  \A i \in Invocations :
                /\ rounds[i] <= k
                /\ (pc[i] = "loop" /\ Len(steps[i]) = k) => CapReached(agent, steps[i])
                /\ (result[i].settled /\ ~result[i].threw /\ result[i].forcedStop) => rounds[i] = k

C4_Witness ==
    \E i \in Invocations :
        /\ nodeData.maxIterations = Str(<<"2">>)
        /\ pc[i] = "returned"
        /\ result[i].forcedStop
        /\ rounds[i] = 2

\* C5: the delta of an invocation stopped by the iteration cap is never equal
\* to the delta of an invocation that finished with a final answer.
C5_ForcedStopMarked ==
    \A i, j \in Invocations :
        (pc[i] = "returned" /\ pc[j] = "returned"
            /\ result[i].forcedStop /\ ~result[j].forcedStop) =>
            outcome[i].value # outcome[j].value

\* C6: a maxIterations input that is absent, empty or not parseable as a
\* number leaves the executor without an iteration cap, and init does not
\* fail because of it.
C6_UnparsableMeansNoLimit ==
    (built # "new" /\ Truthy(nodeData.workerName) /\ nodeData.supervisor.defined
        /\ (~Truthy(nodeData.maxIterations)
               \/ parseFloat(nodeData.maxIterations.value) = NaN)) =>
        /\ built = "ok"
        /\ agent.maxIterations = Undefined

\* C7: a failed tool call leaves the invocation running, its error text is
\* the observation of the scratchpad step, and the model call that follows
\* has that text in a tool message of its prompt; only a failed model call
\* fails an invocation.
C7_ToolErrorIsObservation ==
    \A i \in Invocations :
        /\ pc[i] = "failed" => (result[i].threw /\ result[i].error = ModelError)
        /\ \A n \in DOMAIN steps[i] :
              steps[i][n].observation = ToolErrorText(steps[i][n].action.tool) =>
                  /\ pc[i] \in {"loop", "tool"}
                  /\ pc[i] = "tool" =>
                        \E m \in DOMAIN lastPrompt[i] :
                            /\ lastPrompt[i][m].type = "tool"
                            /\ lastPrompt[i][m].tool_call_id = steps[i][n].action.toolCallId
                            /\ lastPrompt[i][m].content = steps[i][n].observation

C7_Witness ==
    \E i \in Invocations :
        /\ pc[i] = "tool"
        /\ \E n \in DOMAIN steps[i] :
              steps[i][n].observation = ToolErrorText(steps[i][n].action.tool)

\* C8: an invocation whose model call failed has failed: the worker node
\* threw the model's error, returned no delta, and the TeamState is as it was.
C8_ModelErrorPropagates ==
    \A i \in Invocations :
        (result[i].settled /\ result[i].threw) =>
            /\ pc[i] = "failed"
            /\ outcome[i].settled /\ outcome[i].threw
            /\ outcome[i].error = ModelError
            /\ outcome[i].value = NoDelta
            /\ state[i] = stateBefore[i]

C8_Witness ==
    \E i \in Invocations :
        /\ pc[i] = "failed"
        /\ rounds[i] > 1
        /\ stateBefore[i].messages # << >>

\* C9: init with an absent or empty workerName throws: no executor, no
\* worker object, no invocation ever; a worker object that exists has the
\* non-empty workerName it was configured with.
C9_NameRequired ==
    /\ (~Truthy(nodeData.workerName) /\ built # "new") =>
          /\ built = "failed"
          /\ initError = "Worker name is required!"
          /\ agent = NoExecutor
          /\ worker = NoWorker
    /\ ~Truthy(nodeData.workerName) =>
          \A i \in Invocations : pc[i] = "idle" /\ ~result[i].settled
    /\ worker # NoWorker =>
          /\ nodeData.workerName.kind = "string"
          /\ worker.name # << >>
          /\ worker.name = nodeData.workerName.value

C9_Witness ==
    /\ built = "failed"
    /\ nodeData.workerName = Str(<< >>)
    /\ nodeData.supervisor.defined

\* C10: the scratchpad belongs to one invocation: its steps are the
\* invocation's own, the prompt of a model call replays only the steps the
\* same invocation appended before it (none at its first call), and a
\* settled or idle invocation has no steps left.
C10_ScratchpadPerInvocation ==
    \A i \in Invocations :
        /\ pc[i] \in {"idle", "returned", "failed"} => steps[i] = << >>
        /\ \A n \in DOMAIN steps[i] : steps[i][n].action.toolCallId = <<i, n>>
        /\ \A m \in ScratchpadMessages(i) :
              /\ lastPrompt[i][m].tool_call_id[1] = i
              /\ lastPrompt[i][m].tool_call_id[2] < rounds[i]
        /\ rounds[i] > 0 => Cardinality(ScratchpadMessages(i)) = 2 * (rounds[i] - 1)

C10_Witness ==
    \E i, j \in Invocations :
        /\ i # j
        /\ pc[i] = "loop" /\ Len(steps[i]) = 2
        /\ pc[j] = "tool" /\ Len(steps[j]) = 1

====
